---- MODULE Spec2Model ----
(***************************************************************************)
(* The root-finding core of src/app.py: bisection_method (the Bisection    *)
(* Solver) and find_all_roots (the Root Scanner).                          *)
(*                                                                         *)
(* Numbers.  Python floats are IEEE-754 binary floating point: every       *)
(* arithmetic result is rounded to the nearest representable value, ties   *)
(* to even.  The model keeps that semantics in a small format: a number is *)
(* an integer count of the smallest positive value (the least subnormal),  *)
(* it is representable when it has at most Precision significant bits,     *)
(* and 1.0 is 2^MinExp units.  Overflow to infinity and NaN are outside    *)
(* the model (the inputs stay far below the largest value).                *)
(*                                                                         *)
(* The target function f is any deterministic function: its value at a     *)
(* point is chosen when the point is first evaluated.  The only points     *)
(* the code can evaluate twice are the ends of the current cell and of the *)
(* current bracket, whose values the state keeps, so a re-evaluation        *)
(* returns the kept value.                                                 *)
(***************************************************************************)
EXTENDS Integers, Sequences, FiniteSets

VARIABLES
    call,       \* the entry point under execution
    pc,         \* the position in the code
    x_min, x_max, step, tol, max_iter,   \* the arguments
    x_current, x_next, sfa, sfb,         \* find_all_roots: the cell and f at its ends
    roots,                               \* find_all_roots: the accepted roots
    a, b, fa, fb, c, fc, iter_count,     \* bisection_method: its locals
    res,        \* what bisection_method returned (fx: f at the returned root)
    a0, b0, fa0, fb0,   \* the bracket bisection_method was called with, f at its ends
    pa, pb,     \* the bracket before the last completed iteration
    cells,      \* cells visited by the scan so far
    invoked,    \* whether the Solver was invoked on the last visited cell
    cstart,     \* where the last visited cell started
    dropped,    \* whether the last visited cell's root was discarded as a duplicate
    evals       \* evaluations of f so far

vars == <<call, pc, x_min, x_max, step, tol, max_iter, x_current, x_next, sfa, sfb,
          roots, a, b, fa, fb, c, fc, iter_count, res, a0, b0, fa0, fb0, pa, pb,
          cells, invoked, cstart, dropped, evals>>

----------------------------------------------------------------------------
(* Bounds of the model *)

Precision == 2      \* significant bits of a float (53 in Python)
MinExp == 1         \* 1.0 is 2^MinExp times the least positive float (2^1074 in Python)
MaxX == 6           \* a, b, x_min, x_max are floats in 0..MaxX (rounding is symmetric in sign)
MaxStep == 2        \* step is a float in 1..MaxStep
MaxTol == 2         \* tol is -1 or a float in 0..MaxTol
MaxVal == 2         \* f takes float values in -MaxVal..MaxVal
MaxIter == 3        \* max_iter is in 0..MaxIter
MaxCells == 3       \* the scan is followed for MaxCells cells (a stuck scan never ends)

----------------------------------------------------------------------------
(* Floating point *)

Pow2(n) == 2 ^ n

RECURSIVE UlpFor(_, _, _)
UlpFor(num, den, u) ==
    IF num < Pow2(Precision) * u * den THEN u ELSE UlpFor(num, den, 2 * u)

\* num/den (num >= 0) rounded to the nearest representable value, ties to even
RoundRat(num, den) ==
    LET u == UlpFor(num, den, 1)
        q == u * den
        m == num \div q
        r == num % q
    IN  IF 2 * r > q \/ (2 * r = q /\ m % 2 = 1) THEN (m + 1) * u ELSE m * u

FRound(num, den) == IF num < 0 THEN 0 - RoundRat(0 - num, den) ELSE RoundRat(num, den)

IsFloat(n) == FRound(n, 1) = n

FAdd(x, y) == FRound(x + y, 1)
FSub(x, y) == FRound(x - y, 1)
FMul(x, y) == FRound(x * y, Pow2(MinExp))
FHalf(x) == FRound(x, 2)
FAbs(x) == IF x < 0 THEN 0 - x ELSE x
Min(x, y) == IF x <= y THEN x ELSE y

Floats(lo, hi) == {n \in lo..hi : IsFloat(n)}

XSet == Floats(0, MaxX)
StepSet == Floats(1, MaxStep)
TolSet == {-1} \cup Floats(0, MaxTol)
ScanTolSet == Floats(0, MaxTol)
Vals == Floats(0 - MaxVal, MaxVal)
IterSet == 0..MaxIter

----------------------------------------------------------------------------
(* bisection_method *)

NoResult == [found |-> FALSE, root |-> 0, iters |-> 0, status |-> "", fx |-> 0]

Return(root, n, status, fx) ==
    [found |-> TRUE, root |-> root, iters |-> n, status |-> status, fx |-> fx]

ReturnNone(status) ==
    [found |-> FALSE, root |-> 0, iters |-> 0, status |-> status, fx |-> 0]

ValidateSwapped(lo, hi, t) ==
    IF t <= 0 THEN "Error: Tolerance must be positive."
    ELSE IF lo >= hi THEN "Error: Lower bound 'a' must be less than upper bound 'b'."
    ELSE "ok"

Validate(lo, hi, t) ==
    IF lo >= hi THEN "Error: Lower bound 'a' must be less than upper bound 'b'."
    ELSE IF t <= 0 THEN "Error: Tolerance must be positive."
    ELSE "ok"

NearZeroLeq(v, t) == FAbs(v) <= t

NearZero(v, t) == FAbs(v) < t

SameSign(va, vb) == FMul(va, vb) > 0

MidpointNoHalf(lo, hi) == FAdd(lo, hi)

Midpoint(lo, hi) == FHalf(FAdd(lo, hi))

KeepLower(va, vc) == FMul(va, vc) < 0

FallbackNone(m, n, v) == ReturnNone("Maximum iterations reached")

Fallback(m, n, v) == Return(m, n, "Maximum iterations reached", v)

ExhaustedLate(k, n) == k > n

Exhausted(k, n) == k >= n

\* f at a point of the bracket [lo, hi] whose ends have the values vlo, vhi
FAt(x, lo, vlo, hi, vhi) ==
    IF x = lo THEN {vlo} ELSE IF x = hi THEN {vhi} ELSE Vals

----------------------------------------------------------------------------
(* find_all_roots *)

NextCell(x, st, hi) == Min(FAdd(x, st), hi)

SignChangeStrict(va, vb) == FMul(va, vb) < 0

SignChange(va, vb) == FMul(va, vb) <= 0

IsDuplicateExact(root, rs, t) ==
    \E i \in 1..Len(rs) : FAbs(FSub(root, rs[i])) = 0

IsDuplicateNever(root, rs, t) == FALSE

IsDuplicate(root, rs, t) ==
    \E i \in 1..Len(rs) : FAbs(FSub(root, rs[i])) < t

Collect(rs, r, t) ==
    IF r.found /\ ~IsDuplicate(r.root, rs, t) THEN Append(rs, r.root) ELSE rs

----------------------------------------------------------------------------
(* The state after the call: either entry point, with any arguments *)

InitCommon ==
    /\ max_iter \in IterSet
    /\ sfa = 0 /\ sfb = 0
    /\ roots = <<>>
    /\ fa = 0 /\ fb = 0 /\ c = 0 /\ fc = 0 /\ iter_count = 0
    /\ res = NoResult
    /\ fa0 = 0 /\ fb0 = 0
    /\ cells = 0 /\ invoked = FALSE /\ cstart = 0 /\ dropped = FALSE /\ evals = 0

InitSolver ==
    /\ call = "bisection_method"
    /\ pc = "bisect"
    /\ a \in XSet /\ b \in XSet
    /\ tol \in TolSet
    /\ a0 = a /\ b0 = b /\ pa = a /\ pb = b
    /\ x_min = 0 /\ x_max = 0 /\ step = 0 /\ x_current = 0 /\ x_next = 0
    /\ InitCommon

InitScanner ==
    /\ call = "find_all_roots"
    /\ pc = "scan"
    /\ x_min \in XSet /\ x_max \in XSet /\ step \in StepSet
    /\ tol \in ScanTolSet
    /\ x_current = x_min /\ x_next = x_min
    /\ a = 0 /\ b = 0 /\ a0 = 0 /\ b0 = 0 /\ pa = 0 /\ pb = 0
    /\ InitCommon

Init == InitSolver \/ InitScanner

----------------------------------------------------------------------------
(* bisection_method, lines 50-68: the early exits *)

BisectionEnter ==
    /\ pc = "bisect"
    /\ UNCHANGED <<call, x_min, x_max, step, tol, max_iter, x_current, x_next, sfa, sfb,
                   roots, a, b, c, fc, a0, b0, cells, invoked, cstart, dropped>>
    /\ iter_count' = 0
    /\ pa' = a /\ pb' = b
    /\ IF Validate(a, b, tol) # "ok"
       THEN /\ res' = ReturnNone(Validate(a, b, tol))
            /\ pc' = "ret"
            /\ UNCHANGED <<fa, fb, fa0, fb0, evals>>
       ELSE \E va \in (IF call = "find_all_roots" THEN {sfa} ELSE Vals),
               vb \in (IF call = "find_all_roots" THEN {sfb} ELSE Vals) :
            /\ fa' = va /\ fb' = vb /\ fa0' = va /\ fb0' = vb
            /\ evals' = evals + 2
            /\ IF NearZero(va, tol)
               THEN res' = Return(a, 0, "Root found at lower bound.", va) /\ pc' = "ret"
               ELSE IF NearZero(vb, tol)
               THEN res' = Return(b, 0, "Root found at upper bound.", vb) /\ pc' = "ret"
               ELSE IF SameSign(va, vb)
               THEN /\ res' = ReturnNone("No root found: function has same sign at endpoints.")
                    /\ pc' = "ret"
               ELSE IF max_iter < 1
               THEN \* the loop body never runs and 'return c' reads an unbound local
                    res' = ReturnNone("UnboundLocalError") /\ pc' = "raised"
               ELSE res' = res /\ pc' = "loop"

(* bisection_method, lines 71-85: one iteration of the loop, and the return
   after the last one *)
BisectionIterate ==
    /\ pc = "loop"
    /\ UNCHANGED <<call, x_min, x_max, step, tol, max_iter, x_current, x_next, sfa, sfb,
                   roots, a0, b0, fa0, fb0, cells, invoked, cstart, dropped>>
    /\ LET k == iter_count + 1
           m == Midpoint(a, b)
       IN  \E vc \in FAt(m, a, fa, b, fb) :
           /\ iter_count' = k
           /\ c' = m /\ fc' = vc
           /\ evals' = evals + 1
           /\ IF NearZero(vc, tol)
              THEN /\ res' = Return(m, k, "Converged", vc)
                   /\ pc' = "ret"
                   /\ UNCHANGED <<a, b, fa, fb, pa, pb>>
              ELSE /\ pa' = a /\ pb' = b
                   /\ IF KeepLower(fa, vc)
                      THEN b' = m /\ fb' = vc /\ UNCHANGED <<a, fa>>
                      ELSE a' = m /\ fa' = vc /\ UNCHANGED <<b, fb>>
                   /\ IF Exhausted(k, max_iter)
                      THEN res' = Fallback(m, max_iter, vc) /\ pc' = "ret"
                      ELSE res' = res /\ pc' = "loop"

----------------------------------------------------------------------------
(* find_all_roots, lines 96-103: one cell of the scan, up to the call of
   bisection_method *)
ScanCell ==
    /\ pc = "scan"
    /\ x_current < x_max
    /\ cells < MaxCells
    /\ UNCHANGED <<call, x_min, x_max, step, tol, max_iter, roots, fa, fb, c, fc,
                   iter_count, fa0, fb0, pa, pb>>
    /\ LET nx == NextCell(x_current, step, x_max)
       IN  \E va \in (IF cells = 0 THEN Vals ELSE {sfb}) :
           \E vb \in (IF nx = x_current THEN {va} ELSE Vals) :
           /\ x_next' = nx
           /\ sfa' = va /\ sfb' = vb
           /\ evals' = evals + 2
           /\ cells' = cells + 1
           /\ cstart' = x_current
           /\ res' = NoResult
           /\ dropped' = FALSE
           /\ IF SignChange(va, vb)
              THEN /\ invoked' = TRUE
                   /\ a' = x_current /\ b' = nx /\ a0' = x_current /\ b0' = nx
                   /\ pc' = "bisect"
                   /\ UNCHANGED x_current
              ELSE /\ invoked' = FALSE
                   /\ x_current' = nx
                   /\ pc' = "scan"
                   /\ UNCHANGED <<a, b, a0, b0>>

(* find_all_roots, lines 105-117: the de-duplication of the root the Solver
   returned, and the advance to the next cell *)
ScanCollect ==
    /\ pc = "ret"
    /\ call = "find_all_roots"
    /\ roots' = Collect(roots, res, tol)
    /\ dropped' = (res.found /\ IsDuplicate(res.root, roots, tol))
    /\ x_current' = x_next
    /\ pc' = "scan"
    \* the locals of bisection_method are gone
    /\ a' = 0 /\ b' = 0 /\ fa' = 0 /\ fb' = 0 /\ c' = 0 /\ fc' = 0 /\ iter_count' = 0
    /\ a0' = 0 /\ b0' = 0 /\ fa0' = 0 /\ fb0' = 0 /\ pa' = 0 /\ pb' = 0
    /\ UNCHANGED <<call, x_min, x_max, step, tol, max_iter, x_next, sfa, sfb, res,
                   cells, invoked, cstart, evals>>

(* find_all_roots, lines 96 and 119-124: the loop ends and the roots are
   returned *)
ScanFinish ==
    /\ pc = "scan"
    /\ x_current >= x_max
    /\ pc' = "done"
    /\ UNCHANGED <<call, x_min, x_max, step, tol, max_iter, x_current, x_next, sfa, sfb,
                   roots, a, b, fa, fb, c, fc, iter_count, res, a0, b0, fa0, fb0, pa, pb,
                   cells, invoked, cstart, dropped, evals>>

Next == BisectionEnter \/ BisectionIterate \/ ScanCell \/ ScanCollect \/ ScanFinish

Spec == Init /\ [][Next]_vars

----------------------------------------------------------------------------
(* Properties *)

Scanning == call = "find_all_roots"

ValidScan == Scanning /\ x_min < x_max /\ step > 0 /\ tol > 0 /\ max_iter >= 1

CeilDiv(n, d) == (n + d - 1) \div d

(* C1: called with a < b, tol > 0, max_iter >= 1 and f(a)*f(b) <= 0,
   bisection_method returns a root (not None) inside the original bracket,
   also when it stops on the maximum number of iterations. *)
C1_RootInBracket ==
    (pc = "ret" /\ a0 < b0 /\ tol > 0 /\ max_iter >= 1 /\ FMul(fa0, fb0) <= 0)
        => (res.found /\ a0 <= res.root /\ res.root <= b0)

C1_Witness ==
    /\ pc = "ret" /\ res.found
    /\ res.status = "Maximum iterations reached"
    /\ a0 < res.root /\ res.root < b0
    /\ res.iters = max_iter /\ max_iter >= 2

(* C2: at every point of the scan, any two distinct members of the root list
   are at least tol apart (the distance as the de-duplication computes it). *)
C2_RootsApart ==
    \A i, j \in 1..Len(roots) :
        i # j => FAbs(FSub(roots[i], roots[j])) >= tol

C2_Witness ==
    /\ pc = "scan" /\ dropped /\ Len(roots) >= 2
    /\ \A i \in 1..Len(roots) : roots[i] # res.root

(* C3: a root returned by any path but the maximum-iterations fallback has
   |f(root)| < tol (strictly); the iteration count is 0 for a root at an end
   of the bracket and the number of the converging iteration otherwise. *)
C3_ConvergedResidual ==
    (pc = "ret" /\ res.found /\ res.status # "Maximum iterations reached")
        => /\ FAbs(res.fx) < tol
           /\ res.status = "Root found at lower bound."
                  => res.iters = 0 /\ res.root = a0 /\ res.fx = fa0
           /\ res.status = "Root found at upper bound."
                  => res.iters = 0 /\ res.root = b0 /\ res.fx = fb0
           /\ res.status = "Converged"
                  => res.iters = iter_count /\ res.iters >= 1
                     /\ res.root = c /\ res.fx = fc

C3_Witness ==
    /\ pc = "ret" /\ res.found /\ res.status = "Converged"
    /\ res.iters = 2 /\ FAbs(res.fx) = tol - 1 /\ res.fx # 0

(* C4: bisection_method checks a >= b first, then tol <= 0, each before any
   evaluation of f: no root, 0 iterations, and the message of the first
   failing check. *)
C4_ValidationOrder ==
    /\ (pc = "ret" /\ a0 >= b0)
           => /\ ~res.found /\ res.iters = 0
              /\ res.status = "Error: Lower bound 'a' must be less than upper bound 'b'."
              /\ call = "bisection_method" => evals = 0
    /\ (pc = "ret" /\ a0 < b0 /\ tol <= 0)
           => /\ ~res.found /\ res.iters = 0
              /\ res.status = "Error: Tolerance must be positive."
              /\ call = "bisection_method" => evals = 0
              /\ Scanning => evals = 2 * cells

C4_Witness ==
    /\ pc = "ret" /\ call = "bisection_method"
    /\ a0 > b0 /\ tol <= 0 /\ evals = 0
    /\ res.status = "Error: Lower bound 'a' must be less than upper bound 'b'."

(* C5, as stated: one call of find_all_roots evaluates f at most
   ceil((x_max - x_min)/step) * max_iter times. *)
C5_Original ==
    ValidScan => evals <= CeilDiv(x_max - x_min, step) * max_iter

(* C5, amended: a cell costs at most 2 evaluations by the scan, 2 by the
   Solver's entry and max_iter by its loop, so the evaluations are at most
   (cells visited) * (max_iter + 4). *)
C5_EvalBound ==
    ValidScan => evals <= cells * (max_iter + 4)

C5_Witness ==
    /\ ValidScan /\ pc = "done"
    /\ cells >= 2 /\ evals = cells * (max_iter + 4)
    /\ evals > CeilDiv(x_max - x_min, step) * max_iter

(* C6: for x_min < x_max and step > 0 the scan visits exactly
   ceil((x_max - x_min)/step) cells, left to right: the first starts at
   x_min, each starts where the previous one ended, each has
   x_current < x_next, and the last ends at x_max. *)
C6_Original ==
    [][(Scanning /\ x_min < x_max /\ step > 0) =>
          /\ cells' = cells + 1 =>
                /\ cstart' = (IF cells = 0 THEN x_min ELSE x_next)
                /\ cstart' < x_next'
                /\ x_next' <= x_max
          /\ pc' = "done" =>
                /\ cells' = CeilDiv(x_max - x_min, step)
                /\ x_next' = x_max]_vars

(* C7: at the start and end of every iteration of the loop the bracket has
   a < b and its end values never both carry the same strict sign. *)
C7_Original ==
    pc = "loop" => (a < b /\ fa * fb <= 0)

(* C8, as stated: after k non-converging iterations the bracket width is
   exactly (b0 - a0)/2^k. *)
C8_Original ==
    pc = "loop" => (b - a) * Pow2(iter_count) = b0 - a0

(* C8, amended: a non-converging iteration replaces exactly one end by the
   computed midpoint, which lies in the bracket, so the new bracket is
   contained in the previous one and is never wider; the width is halved
   exactly when the midpoint is computed without rounding. *)
C8_Shrink ==
    (pc = "loop" /\ iter_count >= 1)
        => /\ a0 <= pa /\ pa <= a /\ a <= b /\ b <= pb /\ pb <= b0
           /\ (a = c /\ b = pb) \/ (a = pa /\ b = c)
           /\ b - a <= pb - pa
           /\ (IsFloat(pa + pb) /\ (pa + pb) % 2 = 0) => 2 * (b - a) = pb - pa

C8_Witness ==
    /\ pc = "loop" /\ iter_count = 2
    /\ 4 * (b - a) = b0 - a0
    /\ a # a0 /\ b # b0

(* C9, as stated: the Solver is invoked on every visited cell with
   f(x_current)*f(x_next) <= 0 or an end value within tol of zero. *)
C9_Original ==
    (Scanning /\ cells >= 1)
        => ((sfa * sfb <= 0 \/ FAbs(sfa) < tol \/ FAbs(sfb) < tol) => invoked)

(* C9, amended: the Solver is invoked on a visited cell exactly when the
   computed product f(x_current)*f(x_next) is <= 0; an end value within tol
   of zero does not by itself hand the cell to the Solver. *)
C9_InvokedIffSignChange ==
    (Scanning /\ cells >= 1) => (invoked <=> FMul(sfa, sfb) <= 0)

C9_Witness ==
    /\ Scanning /\ cells >= 1 /\ ~invoked
    /\ tol > 0 /\ FAbs(sfa) < tol /\ FAbs(sfb) >= tol
    /\ pc = "scan"

(* C10: the root list is strictly increasing and lies in [x_min, x_max]; a
   zero on a shared cell boundary appears once. *)
C10_RootsIncreasing ==
    ValidScan =>
        /\ \A i \in 1..Len(roots) : x_min <= roots[i] /\ roots[i] <= x_max
        /\ \A i \in 1..(Len(roots) - 1) : roots[i] < roots[i + 1]

C10_Witness ==
    /\ ValidScan /\ pc = "scan" /\ dropped
    /\ res.status = "Root found at lower bound."
    /\ Len(roots) >= 2 /\ roots[Len(roots)] = res.root /\ res.root = cstart

====
